---- MODULE Spec2Model ----
(***************************************************************************)
(* Model of the EV-charging auto-refund scripts, src/autoRefund.py (the    *)
(* loguru variant, "A") and src/auto_refund.py (the logging variant, "B"). *)
(* One run of a script is a sequential state machine:                      *)
(*   config check -> login -> fetch_bills -> main's dispatch ->            *)
(*   process_refunds (entry, one step per bill, summary) -> end of main.   *)
(* The remote API's answers are inputs, drawn from small sets.  Every HTTP *)
(* request the run sends is appended to the history variable requests.     *)
(* Amounts are counted in halves of a currency unit so that a non-integer  *)
(* amount (1.5 = 3 halves) and Python's int() truncation can be modelled.  *)
(***************************************************************************)
EXTENDS Integers, Sequences, FiniteSets, TLC

VARIABLES variant, env, pc, auth_token, login_resp, fetch_resp, bill_data,
          idx, success, failed, skipped, requests, log, exit_code, error

vars == <<variant, env, pc, auth_token, login_resp, fetch_resp, bill_data,
          idx, success, failed, skipped, requests, log, exit_code, error>>

\* Longest bill list the remote API returns in the model.
MaxBills == 3

A == "autoRefund.py"
B == "auto_refund.py"
Variants == {A, B}

----------------------------------------------------------------------------
\* Configuration

EnvKeys == {"BASE_URL", "USERNAME", "PASSWORD_HASH"}
EnvValues == {"unset", "set"}

\* The module-level check of the required values.
ConfigMissing(v, e) ==
    IF v = A
    THEN e["BASE_URL"] = "unset" \/ e["USERNAME"] = "unset"
    ELSE \E k \in EnvKeys : e[k] = "unset"

----------------------------------------------------------------------------
\* Bill records as the remote API sends them

\* An id: None (missing), an int, or a str; a str has n = -1 when it is not
\* a numeral ("abc").
NoId == [t |-> "none", n |-> 0]
IntId(n) == [t |-> "int", n |-> n]
BadStrId == [t |-> "str", n |-> -1]
Ids == {NoId, IntId(1), BadStrId}

\* An amount: None, or a number given in halves (4 = 2.0, 3 = 1.5, -2 = -1).
NoAmt == [none |-> TRUE, h |-> 0]
Amt(h) == [none |-> FALSE, h |-> h]
Amts == {NoAmt, Amt(0), Amt(4), Amt(3), Amt(-2)}

BillRecords == [id : Ids, actualMoney : Amts]

BillLists == UNION {[1..n -> BillRecords] : n \in 0..MaxBills}

\* Python truthiness of an id: None, 0 and "" are falsy.
IdTruthy(id) == id.t # "none" /\ ~(id.t = "int" /\ id.n = 0)

\* int(x) of a number given in halves: truncation toward zero, in units.
IntConv(h) == IF h >= 0 THEN h \div 2 ELSE -((-h) \div 2)

----------------------------------------------------------------------------
\* Login

\* What the login endpoint can answer: a transport error, a non-2xx status,
\* a body that is not JSON, a JSON array, a JSON object without "data", with
\* "data": "", with "data": "<token>", or with a truthy "data" that is not a
\* string (a number).
LoginResponses == {"transport", "http_error", "not_json", "json_list",
                   "no_data", "empty_data", "token", "nonstr_data"}

\* The login responses that carry a non-empty token.
YieldsToken(resp) == resp = "token"

\* login(): whether it reports success, and the value it leaves in the
\* global auth_token.  A non-string truthy "data" makes the token[:20] of the
\* log line raise, which login's own except clause turns into a failure; the
\* B variant has assigned the global by then.
LoginWithoutEmptyCheck(v, resp) ==
    CASE resp = "token" -> [ok |-> TRUE, token |-> "tok_abc123"]
      [] resp = "empty_data" -> [ok |-> TRUE, token |-> ""]
      [] OTHER -> [ok |-> FALSE, token |-> "None"]

LoginResult(v, resp) ==
    CASE resp \in {"transport", "http_error", "not_json", "json_list"} ->
            [ok |-> FALSE, token |-> "None"]
      [] resp \in {"no_data", "empty_data"} ->
            [ok |-> FALSE, token |-> "None"]
      [] resp = "token" ->
            [ok |-> TRUE, token |-> "tok_abc123"]
      [] resp = "nonstr_data" ->
            [ok |-> FALSE, token |-> IF v = B THEN "<number>" ELSE "None"]

\* The exit status main gives a failed login: sys.exit(1) in A, a plain
\* return from main() in B.
LoginFailExitCode(v) == IF v = A THEN 1 ELSE 0

----------------------------------------------------------------------------
\* Bill fetch

TcMissing == [k |-> "missing", n |-> 0]
TcNum(n) == [k |-> "num", n |-> n]
TotalCounts == {TcMissing, TcNum(0), TcNum(2)}

\* The parsed JSON object of a page: totalCount, and data (missing, null or
\* a list of bill records).
Pages ==
    {[kind |-> "dict", tc |-> tc, dk |-> dk, data |-> <<>>] :
        tc \in TotalCounts, dk \in {"missing", "null"}}
    \cup
    {[kind |-> "dict", tc |-> tc, dk |-> "list", data |-> bs] :
        tc \in TotalCounts, bs \in BillLists}

Body(kind) == [kind |-> kind, tc |-> TcMissing, dk |-> "missing", data |-> <<>>]

\* What the page endpoint can answer: a transport error, a non-2xx status, a
\* body that is not JSON, the JSON arrays [] and [1], or a JSON object.
FetchResponses ==
    {Body(k) : k \in {"transport", "http_error", "not_json",
                      "json_empty_list", "json_list"}} \cup Pages

NoneData == Body("None")

\* fetch_bills(): None on an exception, the parsed body otherwise.  In A the
\* data.get("totalCount") of the log line sits inside the try, so a body that
\* is not an object ends in its except clause.
FetchResult(v, resp) ==
    CASE resp.kind \in {"transport", "http_error", "not_json"} -> NoneData
      [] resp.kind \in {"json_empty_list", "json_list"} ->
            IF v = A THEN NoneData ELSE resp
      [] OTHER -> resp

\* Python truthiness of fetch_bills' result: None, [] and {} are falsy.
Truthy(d) ==
    CASE d.kind = "None" -> FALSE
      [] d.kind = "json_empty_list" -> FALSE
      [] d.kind = "json_list" -> TRUE
      [] OTHER -> ~(d.tc.k = "missing" /\ d.dk = "missing")

\* bill_data.get("totalCount", 0)
TotalCount(d) == IF d.tc.k = "missing" THEN 0 ELSE d.tc.n

\* The gate of process_refunds: total == 0.
GateOnEmptyData(d) == d.dk # "list" \/ Len(d.data) = 0

NothingToProcess(d) == TotalCount(d) = 0

\* bill_data.get("data", [])
Bills(d) == IF d.dk = "list" THEN d.data ELSE <<>>

----------------------------------------------------------------------------
\* One iteration of the loop of process_refunds

\* A's test of the id: not bill_id or not isinstance(bill_id, (int, str)).
InvalidId(id) == ~IdTruthy(id) \/ id.t \notin {"int", "str"}

\* int(bill_id) raises ValueError for a str that is not a numeral.
IntOfIdRaises(id) == id.t = "str" /\ id.n < 0

\* A's test of the amount: amt == 0 or amt is None.
SkipAmount(amt) == amt.none \/ amt.h = 0

\* What the loop body does with one bill, before any request:
\*   "continue"  A's invalid-id branch (a warning, nothing counted)
\*   "raise"     int(bill_id) raises ValueError, which nothing catches
\*   "skip"      A's zero/None amount branch (skipped += 1)
\*   "pass"      B's if is false (nothing counted)
\*   "refund"    refund_bill is called
Branch(v, bill) ==
    IF v = A
    THEN IF InvalidId(bill.id) THEN "continue"
         ELSE IF IntOfIdRaises(bill.id) THEN "raise"
         ELSE IF SkipAmount(bill.actualMoney) THEN "skip"
         ELSE "refund"
    ELSE IF IdTruthy(bill.id) /\ ~bill.actualMoney.none
         THEN "refund" ELSE "pass"

\* The billId of the refund payload: int(bill_id) in A, the id as received
\* in B.
PayloadBillId(v, id) == IF v = A /\ id.t = "str" THEN IntId(id.n) ELSE id

\* The refundMoney of the refund payload, in units: int(amt) in both.
PayloadMoney(v, amt) == IntConv(amt.h)

\* What the refund endpoint can answer.
RefundResponses == {"ok_2xx", "http_error", "transport"}

\* refund_bill's verdict on an answer: A tests 200 <= status < 300, B lets
\* raise_for_status raise; both catch a transport exception.
RefundOk(v, resp) == resp = "ok_2xx"

\* A's refund_bill returns False without a request when auth_token is falsy.
AuthTruthy(t) == t \notin {"None", ""}

SendsRefund(v, t) == v = B \/ AuthTruthy(t)

Req(ep, pos, id, money, auth, ok) ==
    [ep |-> ep, pos |-> pos, billId |-> id, refundMoney |-> money,
     auth |-> auth, ok |-> ok]

----------------------------------------------------------------------------
\* The run

Init ==
    /\ variant \in Variants
    /\ env \in [EnvKeys -> EnvValues]
    /\ pc = "config"
    /\ auth_token = "None"
    /\ login_resp = "none"
    /\ fetch_resp = NoneData
    /\ bill_data = NoneData
    /\ idx = 0
    /\ success = 0
    /\ failed = 0
    /\ skipped = 0
    /\ requests = <<>>
    /\ log = {}
    /\ exit_code = -1
    /\ error = "none"

\* An exception nothing catches: the traceback, exit status 1.
Raise(e) ==
    /\ error' = e
    /\ exit_code' = 1
    /\ pc' = "exited"

\* The module-level check: print and sys.exit(1) when a required value is
\* missing, before the log file is set up.
LoadConfig ==
    /\ pc = "config"
    /\ IF ConfigMissing(variant, env)
       THEN /\ exit_code' = 1
            /\ pc' = "exited"
            /\ log' = log
       ELSE /\ exit_code' = exit_code
            /\ pc' = "login"
            /\ log' = log \cup {"start"}
    /\ UNCHANGED <<variant, env, auth_token, login_resp, fetch_resp, bill_data,
                   idx, success, failed, skipped, requests, error>>

\* login() and main's test of its result.
Login ==
    /\ pc = "login"
    /\ \E resp \in LoginResponses :
         LET r == LoginResult(variant, resp) IN
         /\ login_resp' = resp
         /\ auth_token' = r.token
         /\ requests' = Append(requests,
                Req("login", 0, NoId, 0, "None", YieldsToken(resp)))
         /\ IF r.ok
            THEN /\ pc' = "fetch"
                 /\ log' = log \cup {"login_ok"}
                 /\ exit_code' = exit_code
            ELSE /\ pc' = "exited"
                 /\ log' = log \cup {"login_failed"}
                 /\ exit_code' = LoginFailExitCode(variant)
    /\ UNCHANGED <<variant, env, fetch_resp, bill_data, idx, success, failed,
                   skipped, error>>

\* fetch_bills(): one page request carrying the token.
Fetch ==
    /\ pc = "fetch"
    /\ \E resp \in FetchResponses :
         /\ fetch_resp' = resp
         /\ bill_data' = FetchResult(variant, resp)
         /\ requests' = Append(requests,
                Req("fetch", 0, NoId, 0, auth_token, resp.kind = "dict"))
         /\ log' = log \cup (IF FetchResult(variant, resp) = NoneData
                             THEN {"fetch_failed"} ELSE {"bills_ok"})
    /\ pc' = "dispatch"
    /\ UNCHANGED <<variant, env, auth_token, login_resp, idx, success, failed,
                   skipped, exit_code, error>>

\* main: if bill_data: process_refunds(bill_data); A logs "No bill data"
\* otherwise.
Dispatch ==
    /\ pc = "dispatch"
    /\ IF Truthy(bill_data)
       THEN /\ pc' = "process"
            /\ log' = log
       ELSE /\ pc' = "finish"
            /\ log' = log \cup (IF variant = A THEN {"no_bill_data"} ELSE {})
    /\ UNCHANGED <<variant, env, auth_token, login_resp, fetch_resp, bill_data,
                   idx, success, failed, skipped, requests, exit_code, error>>

\* process_refunds up to its loop: the totalCount gate, the data list.
ProcessStart ==
    /\ pc = "process"
    /\ IF bill_data.kind # "dict"
       THEN /\ Raise("AttributeError")
            /\ UNCHANGED <<log, idx>>
       ELSE IF NothingToProcess(bill_data)
       THEN /\ log' = log \cup {"bills_found", "no_bills"}
            /\ pc' = "finish"
            /\ UNCHANGED <<idx, exit_code, error>>
       ELSE IF bill_data.dk = "null"
       THEN IF variant = A
            THEN /\ log' = log \cup {"bills_found", "not_a_list"}
                 /\ pc' = "finish"
                 /\ UNCHANGED <<idx, exit_code, error>>
            ELSE /\ Raise("TypeError")
                 /\ log' = log \cup {"bills_found"}
                 /\ UNCHANGED idx
       ELSE /\ log' = log \cup {"bills_found"}
            /\ idx' = 1
            /\ pc' = "loop"
            /\ UNCHANGED <<exit_code, error>>
    /\ UNCHANGED <<variant, env, auth_token, login_resp, fetch_resp, bill_data,
                   success, failed, skipped, requests>>

\* One iteration of for bill in bills, the call of refund_bill included.
LoopStep ==
    /\ pc = "loop"
    /\ idx <= Len(Bills(bill_data))
    /\ LET bill == Bills(bill_data)[idx]
           br == Branch(variant, bill)
       IN
       CASE br = "raise" ->
              /\ Raise("ValueError")
              /\ UNCHANGED <<idx, success, failed, skipped, requests>>
         [] br \in {"continue", "pass"} ->
              /\ idx' = idx + 1
              /\ UNCHANGED <<pc, success, failed, skipped, requests,
                             exit_code, error>>
         [] br = "skip" ->
              /\ idx' = idx + 1
              /\ skipped' = skipped + 1
              /\ UNCHANGED <<pc, success, failed, requests, exit_code, error>>
         [] br = "refund" ->
              /\ idx' = idx + 1
              /\ IF SendsRefund(variant, auth_token)
                 THEN \E resp \in RefundResponses :
                        /\ requests' = Append(requests,
                               Req("refund", idx,
                                   PayloadBillId(variant, bill.id),
                                   PayloadMoney(variant, bill.actualMoney),
                                   auth_token, RefundOk(variant, resp)))
                        /\ IF RefundOk(variant, resp)
                           THEN success' = success + 1 /\ failed' = failed
                           ELSE failed' = failed + 1 /\ success' = success
                 ELSE /\ failed' = failed + 1
                      /\ UNCHANGED <<success, requests>>
              /\ UNCHANGED <<pc, skipped, exit_code, error>>
    /\ UNCHANGED <<variant, env, auth_token, login_resp, fetch_resp, bill_data,
                   log>>

\* The end of the loop: the summary line, and the return to main.
LoopEnd ==
    /\ pc = "loop"
    /\ idx > Len(Bills(bill_data))
    /\ log' = log \cup {"summary"}
    /\ pc' = "finish"
    /\ UNCHANGED <<variant, env, auth_token, login_resp, fetch_resp, bill_data,
                   idx, success, failed, skipped, requests, exit_code, error>>

\* main's last log line; the interpreter exits with status 0.
Finish ==
    /\ pc = "finish"
    /\ log' = log \cup {"done"}
    /\ exit_code' = 0
    /\ pc' = "exited"
    /\ UNCHANGED <<variant, env, auth_token, login_resp, fetch_resp, bill_data,
                   idx, success, failed, skipped, requests, error>>

Next ==
    \/ LoadConfig
    \/ Login
    \/ Fetch
    \/ Dispatch
    \/ ProcessStart
    \/ LoopStep
    \/ LoopEnd
    \/ Finish

Spec == Init /\ [][Next]_vars

----------------------------------------------------------------------------
\* Vocabulary of the properties

TheBills == Bills(bill_data)
Positions == 1..Len(TheBills)

\* The indices, in requests, of the refund requests sent so far.
RefundReqs == {k \in 1..Len(requests) : requests[k].ep = "refund"}

\* Those sent for the bill at position i of the fetched list.
RefundsAt(i) == {k \in RefundReqs : requests[k].pos = i}

\* The loop has gone past position i (idx is 0 until the loop is entered).
Processed(i) == i < idx

ZeroOrAbsent(amt) == amt.none \/ amt.h = 0
PositiveAmount(amt) == ~amt.none /\ amt.h > 0
ValidId(id) == id.t = "int" /\ id.n > 0
Eligible(bill) == ValidId(bill.id) /\ PositiveAmount(bill.actualMoney)
MalformedBill(bill) ==
    \/ bill.id.t = "none"
    \/ (bill.id.t = "str" /\ bill.id.n < 0)
    \/ ZeroOrAbsent(bill.actualMoney)

LoginFailed == login_resp # "none" /\ ~YieldsToken(login_resp)

\* The fetch step failed: transport error, non-2xx, a body that is not JSON,
\* or JSON of an unexpected shape (an array; an object whose data is null).
FetchFailed ==
    \/ fetch_resp.kind \in {"transport", "http_error", "not_json",
                            "json_empty_list", "json_list"}
    \/ (fetch_resp.kind = "dict" /\ fetch_resp.dk = "null")

\* A successful fetch whose parsed body is falsy: [] or {}.
FalsyBody ==
    \/ fetch_resp.kind = "json_empty_list"
    \/ (fetch_resp.kind = "dict" /\ fetch_resp.tc.k = "missing"
            /\ fetch_resp.dk = "missing")

----------------------------------------------------------------------------
\* C1: for every bill whose actualMoney is 0 or absent, no refund request is
\* sent for it, and the skipped count has been incremented for each such
\* bill the loop has gone past.
C1_NoRefundForZeroOrAbsentAmount ==
    /\ \A i \in Positions :
          ZeroOrAbsent(TheBills[i].actualMoney) => RefundsAt(i) = {}
    /\ skipped >= Cardinality({i \in Positions :
          Processed(i) /\ ZeroOrAbsent(TheBills[i].actualMoney)})

\* C2: every bill with a valid id and a positive amount that the loop has
\* gone past got exactly one refund request, carrying its id as billId and
\* its amount, unaltered, as refundMoney.
C2_ExactlyOneRefundCarryingIdAndAmount ==
    \A i \in Positions :
        (Processed(i) /\ Eligible(TheBills[i])) =>
            /\ Cardinality(RefundsAt(i)) = 1
            /\ \A k \in RefundsAt(i) :
                  /\ requests[k].billId = TheBills[i].id
                  /\ 2 * requests[k].refundMoney = TheBills[i].actualMoney.h

\* C3: once the login step has not yielded a non-empty token, the run sends
\* no bill-fetch request and no refund request.
C3_NoFetchOrRefundAfterFailedLogin ==
    LoginFailed => \A k \in 1..Len(requests) : requests[k].ep = "login"

\* C3's case: a login answered with an empty data field, and the run over.
C3_FailedLoginRunOver ==
    /\ pc = "exited"
    /\ login_resp = "empty_data"
    /\ Len(requests) = 1
    /\ requests[1].ep = "login"

\* C4: when the loop is over, success + failed + skipped is the number of
\* bills of the batch, and skipped is at least the number of bills with a
\* zero or null amount.
C4_TallyCoversTheBatch ==
    "summary" \in log =>
        /\ success + failed + skipped = Len(TheBills)
        /\ skipped >= Cardinality({i \in Positions :
              ZeroOrAbsent(TheBills[i].actualMoney)})

\* C5: the exit status is non-zero exactly when the configuration check or
\* the login failed; every other run exits with status 0.
C5_ExitCodeNonZeroIffConfigOrLoginFailed ==
    pc = "exited" =>
        (exit_code # 0 <=> (ConfigMissing(variant, env) \/ LoginFailed))

\* C6: a malformed bill (id missing, id not numeric, amount null or zero)
\* gets no refund request, raises no unhandled error, and does not keep the
\* loop from reaching the end of the list.
C6_MalformedBillIsSkippedNotAnError ==
    \A i \in Positions :
        MalformedBill(TheBills[i]) =>
            /\ RefundsAt(i) = {}
            /\ ~(error # "none" /\ idx = i)
            /\ (pc = "exited" /\ idx >= i) =>
                    (error = "none" /\ idx = Len(TheBills) + 1)

\* C7: no two refund requests of a run carry the same bill id, and every
\* refund request is for a bill whose amount is positive.
C7_AtMostOncePerIdAndOnlyPositive ==
    /\ \A k1, k2 \in RefundReqs :
          requests[k1].billId = requests[k2].billId => k1 = k2
    /\ \A k \in RefundReqs :
          PositiveAmount(TheBills[requests[k].pos].actualMoney)

\* C8: when the fetch step fails, the loop processes no bill, no refund
\* request is sent, no error goes unhandled, and the run ends normally.
C8_FetchFailureIsNotFatal ==
    FetchFailed =>
        /\ RefundReqs = {}
        /\ idx = 0
        /\ error = "none"
        /\ pc = "exited" => (exit_code = 0 /\ "done" \in log)

\* C9: a failed refund request is counted once in failed, its bill is not
\* retried, requests follow the list order, and when the run is over every
\* eligible bill after a failed one has got its refund request.
C9_FailedRefundDoesNotStopTheLoop ==
    /\ failed = Cardinality({k \in RefundReqs : ~requests[k].ok})
    /\ \A k \in RefundReqs :
          ~requests[k].ok => Cardinality(RefundsAt(requests[k].pos)) = 1
    /\ \A k1, k2 \in RefundReqs :
          k1 < k2 => requests[k1].pos < requests[k2].pos
    /\ pc = "exited" =>
          \A k \in RefundReqs :
              ~requests[k].ok =>
                  \A j \in Positions :
                      (j > requests[k].pos /\ Eligible(TheBills[j])) =>
                          RefundsAt(j) # {}

\* C10: with totalCount 0 or missing, process_refunds sends no refund
\* request and emits no summary, whatever the data list holds; and a
\* successful fetch with a falsy body never enters process_refunds, sends no
\* refund request, and is logged as "No bill data" by the variant that logs
\* it.
C10_GatedByTotalCount ==
    /\ (bill_data.kind = "dict" /\ TotalCount(bill_data) = 0) =>
          (RefundReqs = {} /\ "summary" \notin log /\ idx = 0)
    /\ FalsyBody =>
          /\ RefundReqs = {}
          /\ "bills_found" \notin log
          /\ (variant = A /\ pc \in {"finish", "exited"}) =>
                "no_bill_data" \in log

\* C10's case: totalCount 0 over a data list holding an eligible bill, the
\* run over and process_refunds entered.
C10_ZeroTotalOverEligibleBills ==
    /\ pc = "exited"
    /\ bill_data.kind = "dict"
    /\ bill_data.tc = TcNum(0)
    /\ \E i \in Positions : Eligible(TheBills[i])
    /\ "no_bills" \in log
    /\ RefundReqs = {}

====
